---- MODULE Spec2Model ----
(***************************************************************************)
(* A model of edk2toollib.database: the Edk2DB orchestrator (register,     *)
(* clear_parsers, parse, __exit__) over a sqlite3 connection, and the table *)
(* generators InfTable, InstancedFvTable and InstancedInfTable.             *)
(*                                                                         *)
(* Strings that the code takes apart are sequences of their parts:         *)
(*   - a path is the sequence of its components; an absolute path starts   *)
(*     with the component "/" followed by the workspace directory;         *)
(*   - a scope "ia32.peim" is <<"ia32", "peim">>, and a key of the scoped   *)
(*     library map "ia32.peim.clsa" is <<"ia32", "peim", "clsa">>.         *)
(* Python's None is the empty sequence.                                    *)
(***************************************************************************)
EXTENDS Naturals, Sequences, FiniteSets, TLC

VARIABLES
    infs,            \* the workspace: module description file name -> InfParser view
    dscp,            \* the workspace: DscParser view of the active platform description
    fdfp,            \* the workspace: FdfParser view of the flash description
    made,            \* outcome of the last generator constructor call
    parsers,         \* Edk2DB._parsers
    db,              \* Edk2DB.connection: the tables as the connection sees them
    in_transaction,  \* sqlite3.Connection.in_transaction
    disk,            \* the durable (committed) content of the database file
    pc,              \* position of the caller / of Edk2DB.parse
    idx,             \* loop index of Edk2DB.parse
    log,             \* calls Edk2DB.parse has made in the current run, in order
    raised,          \* the exception that left the last call, or NoError
    failed,          \* the last failing populate: the tables before it, at the raise, and on disk
    built,           \* what _build_inf_table returned in the last InstancedInfTable.parse
    runs             \* number of Edk2DB.parse calls started

vars == <<infs, dscp, fdfp, made, parsers, db, in_transaction, disk, pc, idx, log,
          raised, failed, built, runs>>

None == <<>>

NoError == [kind |-> "none"]

Range(s) == {s[i] : i \in 1..Len(s)}

InList(x, s) == \E i \in 1..Len(s) : s[i] = x

Min(S) == CHOOSE m \in S : \A n \in S : m <= n

----------------------------------------------------------------------------
(* str.lower / str.upper on the tokens that occur *)

LowerOf ==
    [ClsA |-> "clsa", ClsB |-> "clsb", ClsC |-> "clsc",
     PEIM |-> "peim", SEC |-> "sec", DXE_DRIVER |-> "dxe_driver", BASE |-> "base",
     IA32 |-> "ia32", X64 |-> "x64", COMMON |-> "common"]

Lower(s) == IF s \in DOMAIN LowerOf THEN LowerOf[s] ELSE s

Upper(s) == IF \E u \in DOMAIN LowerOf : LowerOf[u] = s
            THEN CHOOSE u \in DOMAIN LowerOf : LowerOf[u] = s
            ELSE s

(* pathlib.Path *)

IsAbsolute(p) == Len(p) > 0 /\ p[1] = "/"

AsPosix(p) == SelectSeq(p, LAMBDA c : c # ".")

PathName(p) == IF Len(p) = 0 THEN "" ELSE p[Len(p)]

(* Edk2Path.GetEdk2RelativePathFromAbsolutePath: the path below the workspace *)
GetEdk2RelativePathFromAbsolutePath(p) == SubSeq(p, 3, Len(p))

(* InfParser().ParseFile(inf): the view of the file the path names *)
InfP(inf) == infs[PathName(inf)]

----------------------------------------------------------------------------
(* InstancedInfTable._lib_to_instance *)

Return(v) == [err |-> NoError, value |-> v]

Raise(e) == [err |-> e, value |-> None]

RuntimeError(self, cls, scope) ==
    [kind |-> "RuntimeError", cls |-> cls, scope |-> scope, dsc |-> self.dsc]

(* the lookup with the third and the fourth level exchanged *)
_lib_to_instance_ArchFirst(self, library_class_name, scope, library_dict, override_dict) ==
    IF Len(scope) # 2
    THEN Raise([kind |-> "ValueError"])
    ELSE LET arch == scope[1]
             module == scope[2]
         IN  IF library_class_name \in DOMAIN override_dict
             THEN Return(override_dict[library_class_name])
             ELSE IF <<arch, module, library_class_name>> \in DOMAIN library_dict
             THEN Return(library_dict[<<arch, module, library_class_name>>])
             ELSE IF <<arch, library_class_name>> \in DOMAIN library_dict
             THEN Return(library_dict[<<arch, library_class_name>>])
             ELSE IF <<"common", module, library_class_name>> \in DOMAIN library_dict
             THEN Return(library_dict[<<"common", module, library_class_name>>])
             ELSE IF <<"common", library_class_name>> \in DOMAIN library_dict
             THEN Return(library_dict[<<"common", library_class_name>>])
             ELSE Raise(RuntimeError(self, library_class_name, scope))

_lib_to_instance(self, library_class_name, scope, library_dict, override_dict) ==
    IF Len(scope) # 2
    THEN Raise([kind |-> "ValueError"])
    ELSE LET arch == scope[1]
             module == scope[2]
         IN  IF library_class_name \in DOMAIN override_dict
             THEN Return(override_dict[library_class_name])
             ELSE IF <<arch, module, library_class_name>> \in DOMAIN library_dict
             THEN Return(library_dict[<<arch, module, library_class_name>>])
             ELSE IF <<"common", module, library_class_name>> \in DOMAIN library_dict
             THEN Return(library_dict[<<"common", module, library_class_name>>])
             ELSE IF <<arch, library_class_name>> \in DOMAIN library_dict
             THEN Return(library_dict[<<arch, library_class_name>>])
             ELSE IF <<"common", library_class_name>> \in DOMAIN library_dict
             THEN Return(library_dict[<<"common", library_class_name>>])
             ELSE Raise(RuntimeError(self, library_class_name, scope))

----------------------------------------------------------------------------
(* InstancedInfTable._parse_inf_recursively *)

(* step 1: the resolved instance of every needed class, then the NULL libraries *)
Resolutions(self, inf, library_dict, override_dict, scope) ==
    LET libs == InfP(inf).libraries
    IN  [i \in 1..Len(libs) |->
            _lib_to_instance(self, Lower(libs[i]), scope, library_dict, override_dict)]

(* the NULL libraries appended without the test against the node itself *)
NullLibraries_WithSelf(inf, override_dict) == override_dict["NULL"]

NullLibraries(inf, override_dict) ==
    SelectSeq(override_dict["NULL"], LAMBDA null_lib : null_lib # inf)

Entry(self, inf, component, scope, library_instances) ==
    [DSC |-> PathName(self.dsc),
     PATH |-> AsPosix(inf),
     NAME |-> InfP(inf).Dict["BASE_NAME"],
     COMPONENT |-> AsPosix(component),
     MODULE_TYPE |-> InfP(inf).Dict["MODULE_TYPE"],
     ARCH |-> Upper(scope[1]),
     SOURCES_USED |-> [i \in 1..Len(InfP(inf).Sources) |-> AsPosix(InfP(inf).Sources[i])],
     LIBRARIES_USED |-> [i \in 1..Len(library_instances) |-> AsPosix(library_instances[i])]]

RECURSIVE _parse_inf_recursively(_, _, _, _, _, _, _)
RECURSIVE VisitLibraries(_, _, _, _, _, _, _, _)

(* the rows of one library join those of the loop, but what its expansion visited
   is not kept: every call works on a visited list of its own *)
Extend_OwnVisited(acc, r) ==
    [to_return |-> acc.to_return \o r.to_return, visited |-> acc.visited, err |-> r.err]

(* to_return += self._parse_inf_recursively(...): the rows of one library join those
   of the loop; visited is the one list all calls append to *)
Extend(acc, r) ==
    [to_return |-> acc.to_return \o r.to_return, visited |-> r.visited, err |-> r.err]

(* the loop handing the libraries an override map without the class overrides *)
VisitLibraries_DropOverrides(self, library_instances, k, component, library_dict, override_dict, scope, acc) ==
    IF k > Len(library_instances) \/ acc.err.kind # "none"
    THEN acc
    ELSE IF InList(library_instances[k], acc.visited)
    THEN VisitLibraries(self, library_instances, k + 1, component, library_dict,
                        override_dict, scope, acc)
    ELSE VisitLibraries(self, library_instances, k + 1, component, library_dict,
                        override_dict, scope,
                        Extend(acc, _parse_inf_recursively(
                                        self, library_instances[k], component, library_dict,
                                        [NULL |-> override_dict["NULL"]], scope, acc.visited)))

(* the loop with a visited list that each call copies: what a library's own
   expansion visited is not seen by the libraries after it *)
VisitLibraries_CopiesVisited(self, library_instances, k, component, library_dict, override_dict, scope, acc) ==
    IF k > Len(library_instances) \/ acc.err.kind # "none"
    THEN acc
    ELSE IF InList(library_instances[k], acc.visited)
    THEN VisitLibraries(self, library_instances, k + 1, component, library_dict,
                        override_dict, scope, acc)
    ELSE VisitLibraries(self, library_instances, k + 1, component, library_dict,
                        override_dict, scope,
                        [Extend(acc, _parse_inf_recursively(
                                         self, library_instances[k], component, library_dict,
                                         override_dict, scope, acc.visited))
                            EXCEPT !.visited = Append(acc.visited, library_instances[k])])

(* for library in filter(lambda lib: lib not in visited, library_instances): the
   filter is lazy, so each library is tested against visited as the loop reaches it *)
VisitLibraries(self, library_instances, k, component, library_dict, override_dict, scope, acc) ==
    IF k > Len(library_instances) \/ acc.err.kind # "none"
    THEN acc
    ELSE IF InList(library_instances[k], acc.visited)
    THEN VisitLibraries(self, library_instances, k + 1, component, library_dict,
                        override_dict, scope, acc)
    ELSE VisitLibraries(self, library_instances, k + 1, component, library_dict,
                        override_dict, scope,
                        Extend(acc, _parse_inf_recursively(
                                        self, library_instances[k], component, library_dict,
                                        override_dict, scope, acc.visited)))

(* the lookups of step 1 that raised *)
Unresolved(res) == {i \in DOMAIN res : res[i].err.kind # "none"}

(* library_instances after step 1 *)
LibraryInstances(res, inf, override_dict) ==
    [i \in DOMAIN res |-> res[i].value] \o NullLibraries(inf, override_dict)

(* the node's own row put in front of the rows of its libraries *)
AppendEntry_ParentFirst(self, inf, component, scope, library_instances, sub) ==
    IF sub.err.kind # "none"
    THEN sub
    ELSE IF "MODULE_TYPE" \notin DOMAIN InfP(inf).Dict
    THEN [sub EXCEPT !.err = [kind |-> "KeyError", key |-> "MODULE_TYPE"]]
    ELSE [sub EXCEPT !.to_return =
             <<Entry(self, inf, component, scope, library_instances)>> \o @]

(* to_return.append({...}); return to_return *)
AppendEntry(self, inf, component, scope, library_instances, sub) ==
    IF sub.err.kind # "none"
    THEN sub
    ELSE IF "MODULE_TYPE" \notin DOMAIN InfP(inf).Dict
    THEN [sub EXCEPT !.err = [kind |-> "KeyError", key |-> "MODULE_TYPE"]]
    ELSE [sub EXCEPT !.to_return =
             Append(@, Entry(self, inf, component, scope, library_instances))]

(* the body after step 1: the first lookup that raised ends the call, else the
   libraries are visited and the node's own row is appended *)
VisitAndAppend(self, inf, component, library_dict, override_dict, scope, visited, res) ==
    IF Unresolved(res) # {}
    THEN [to_return |-> <<>>, visited |-> visited, err |-> res[Min(Unresolved(res))].err]
    ELSE AppendEntry(self, inf, component, scope,
                     LibraryInstances(res, inf, override_dict),
                     VisitLibraries(self, LibraryInstances(res, inf, override_dict), 1,
                                    component, library_dict, override_dict, scope,
                                    [to_return |-> <<>>, visited |-> visited,
                                     err |-> NoError]))

_parse_inf_recursively(self, inf, component, library_dict, override_dict, scope, visited) ==
    VisitAndAppend(self, inf, component, library_dict, override_dict, scope,
                   Append(visited, inf),
                   Resolutions(self, inf, library_dict, override_dict, scope))

----------------------------------------------------------------------------
(* InstancedInfTable._build_inf_table *)

ComponentScope(comp) ==
    IF "MODULE_TYPE" \in DOMAIN InfP(comp.inf).Dict
    THEN Append(comp.scope, Lower(InfP(comp.inf).Dict["MODULE_TYPE"]))
    ELSE comp.scope

RECURSIVE BuildComponents(_, _, _, _)

(* inf_entries += self._parse_inf_recursively(inf, inf, ...); the rows of the k-th
   component are also kept by themselves, with the visited list of its expansion *)
AddExpansion(acc, k, r) ==
    [inf_entries |-> acc.inf_entries \o r.to_return,
     expansions |-> Append(acc.expansions,
                           [k |-> k, rows |-> r.to_return, visited |-> r.visited]),
     err |-> r.err]

(* the expansion of one declared component *)
ExpandComponent(self, view, comp) ==
    _parse_inf_recursively(self, comp.inf, comp.inf, view.ScopedLibraryDict,
                           comp.overrides, ComponentScope(comp), <<>>)

(* the component loop without the test for a declared library class *)
BuildComponents_NoSkip(self, view, k, acc) ==
    IF k > Len(view.Components) \/ acc.err.kind # "none"
    THEN acc
    ELSE BuildComponents(self, view, k + 1,
                         AddExpansion(acc, k, ExpandComponent(self, view, view.Components[k])))

(* for (inf, scope, overrides) in dscp.Components *)
BuildComponents(self, view, k, acc) ==
    IF k > Len(view.Components) \/ acc.err.kind # "none"
    THEN acc
    ELSE IF "LIBRARY_CLASS" \in DOMAIN InfP(view.Components[k].inf).Dict
    THEN BuildComponents(self, view, k + 1, acc)
    ELSE BuildComponents(self, view, k + 1,
                         AddExpansion(acc, k, ExpandComponent(self, view, view.Components[k])))

(* the rows left as the expansion made them *)
Normalize_Keep(entry) == entry

(* "Move entries to correct table" *)
Normalize(entry) ==
    IF entry.PATH = entry.COMPONENT THEN [entry EXCEPT !.COMPONENT = None] ELSE entry

(* the normalisation loop; an error that left the component loop leaves the method *)
NormalizeAll(all) ==
    IF all.err.kind # "none"
    THEN all
    ELSE [all EXCEPT !.inf_entries = [i \in 1..Len(@) |-> Normalize(@[i])]]

_build_inf_table(self, view) ==
    NormalizeAll(BuildComponents(self, view, 1,
                                 [inf_entries |-> <<>>, expansions |-> <<>>, err |-> NoError]))

----------------------------------------------------------------------------
(* The sqlite3 database: tables as the connection sees them *)

EmptyDb ==
    [tables |-> {}, environment |-> <<>>, inf |-> {}, instanced_fv |-> <<>>,
     instanced_inf |-> <<>>, junction |-> <<>>]

(* CREATE TABLE IF NOT EXISTS *)
CreateTable(d, names) == [d EXCEPT !.tables = @ \cup names]

(* INSERT INTO junction (table1, key1, table2, key2) *)
INSERT_JUNCTION_ROW(d, table1, key1, table2, key2) ==
    [d EXCEPT !.junction = Append(@, <<table1, key1, table2, key2>>)]

(* INSERT OR REPLACE on the path, as the inf table has it *)
INSERT_INSTANCED_INF_ROW_OrReplace(d, env, entry) ==
    [d EXCEPT !.instanced_inf =
        Append(SelectSeq(@, LAMBDA r : r.path # entry.PATH),
               [id |-> Len(@) + 1, env |-> env, dsc |-> entry.DSC, path |-> entry.PATH,
                name |-> entry.NAME, arch |-> entry.ARCH,
                component |-> entry.COMPONENT])]

(* INSERT INTO instanced_inf (env, dsc, path, name, arch, component) *)
INSERT_INSTANCED_INF_ROW(d, env, entry) ==
    [d EXCEPT !.instanced_inf =
        Append(@, [id |-> Len(@) + 1, env |-> env, dsc |-> entry.DSC, path |-> entry.PATH,
                   name |-> entry.NAME, arch |-> entry.ARCH,
                   component |-> entry.COMPONENT])]

(* SELECT id FROM instanced_inf WHERE env = ? and path = ? and dsc = ? LIMIT 1,
   .fetchone(): the first matching row in rowid order, or None *)
GET_ROW_ID(d, env, path, dsc) ==
    LET hits == {i \in 1..Len(d.instanced_inf) :
                    /\ d.instanced_inf[i].env = env
                    /\ d.instanced_inf[i].path = path
                    /\ d.instanced_inf[i].dsc = dsc}
    IN  IF hits = {} THEN None ELSE <<d.instanced_inf[Min(hits)].id>>

(* SELECT id FROM environment ORDER BY date DESC LIMIT 1, .fetchone()[0] *)
LatestEnvironment(d) ==
    IF "environment" \notin d.tables
    THEN Raise([kind |-> "OperationalError"])
    ELSE IF d.environment = <<>>
    THEN Raise([kind |-> "TypeError"])
    ELSE Return(d.environment[Len(d.environment)].id)

----------------------------------------------------------------------------
(* InstancedInfTable: __init__, create_tables, parse *)

KeyError(key) == [kind |-> "KeyError", key |-> key]

(* the constructor reading FLASH_DEFINITION with env["FLASH_DEFINITION"], as the
   firmware volume generator does *)
InstancedInfTable_init_NeedsFlash(env) ==
    IF "ACTIVE_PLATFORM" \notin DOMAIN env THEN Raise(KeyError("ACTIVE_PLATFORM"))
    ELSE IF "FLASH_DEFINITION" \notin DOMAIN env THEN Raise(KeyError("FLASH_DEFINITION"))
    ELSE IF "TARGET_ARCH" \notin DOMAIN env THEN Raise(KeyError("TARGET_ARCH"))
    ELSE IF "TARGET" \notin DOMAIN env THEN Raise(KeyError("TARGET"))
    ELSE Return([kind |-> "InstancedInfTable",
                 dsc |-> env["ACTIVE_PLATFORM"],
                 fdf |-> env["FLASH_DEFINITION"],
                 arch |-> env["TARGET_ARCH"],
                 target |-> env["TARGET"]])

InstancedInfTable_init(env) ==
    IF "ACTIVE_PLATFORM" \notin DOMAIN env THEN Raise(KeyError("ACTIVE_PLATFORM"))
    ELSE IF "TARGET_ARCH" \notin DOMAIN env THEN Raise(KeyError("TARGET_ARCH"))
    ELSE IF "TARGET" \notin DOMAIN env THEN Raise(KeyError("TARGET"))
    ELSE Return([kind |-> "InstancedInfTable",
                 dsc |-> env["ACTIVE_PLATFORM"],
                 fdf |-> IF "FLASH_DEFINITION" \in DOMAIN env
                         THEN env["FLASH_DEFINITION"] ELSE <<>>,
                 arch |-> env["TARGET_ARCH"],
                 target |-> env["TARGET"]])

InstancedInfTable_create_tables(d) == CreateTable(d, {"instanced_inf"})

RewriteAbsolute(entry) ==
    IF IsAbsolute(entry.PATH)
    THEN [entry EXCEPT !.PATH = GetEdk2RelativePathFromAbsolutePath(@)]
    ELSE entry

RECURSIVE InsertEntries(_, _, _, _)

(* "add instanced_inf entries" *)
InsertEntries(d, env, inf_entries, k) ==
    IF k > Len(inf_entries)
    THEN d
    ELSE InsertEntries(INSERT_INSTANCED_INF_ROW(d, env, inf_entries[k]), env, inf_entries, k + 1)

RECURSIVE SourceEdges(_, _, _, _)

SourceEdges(d, entry, inf_id, k) ==
    IF k > Len(entry.SOURCES_USED)
    THEN d
    ELSE SourceEdges(INSERT_JUNCTION_ROW(d, "instanced_inf", inf_id, "source",
                                         entry.SOURCES_USED[k]),
                     entry, inf_id, k + 1)

RECURSIVE LibraryEdges(_, _, _, _, _)

(* the library loop that writes no edge into a row that another row already has an
   edge into *)
LibraryEdges_FirstParentOnly(d, env, entry, inf_id, k) ==
    IF k > Len(entry.LIBRARIES_USED)
    THEN [db |-> d, err |-> NoError]
    ELSE LET row == GET_ROW_ID(d, env, entry.LIBRARIES_USED[k], entry.DSC)
         IN  IF row = None
             THEN [db |-> d, err |-> [kind |-> "TypeError"]]
             ELSE IF \E i \in 1..Len(d.junction) :
                        /\ d.junction[i][3] = "instanced_inf"
                        /\ d.junction[i][4] = row[1]
                        /\ d.junction[i][2] # inf_id
             THEN LibraryEdges(d, env, entry, inf_id, k + 1)
             ELSE LibraryEdges(INSERT_JUNCTION_ROW(d, "instanced_inf", inf_id,
                                                   "instanced_inf", row[1]),
                               env, entry, inf_id, k + 1)

LibraryEdges(d, env, entry, inf_id, k) ==
    IF k > Len(entry.LIBRARIES_USED)
    THEN [db |-> d, err |-> NoError]
    ELSE LET row == GET_ROW_ID(d, env, entry.LIBRARIES_USED[k], entry.DSC)
         IN  IF row = None
             THEN [db |-> d, err |-> [kind |-> "TypeError"]]
             ELSE LibraryEdges(INSERT_JUNCTION_ROW(d, "instanced_inf", inf_id,
                                                   "instanced_inf", row[1]),
                               env, entry, inf_id, k + 1)

RECURSIVE JunctionEntries(_, _, _, _)

(* "add junction entries" *)
JunctionEntries(d, env, inf_entries, k) ==
    IF k > Len(inf_entries)
    THEN [db |-> d, err |-> NoError]
    ELSE LET entry == inf_entries[k]
             row == GET_ROW_ID(d, env, entry.PATH, entry.DSC)
         IN  IF row = None
             THEN [db |-> d, err |-> [kind |-> "TypeError"]]
             ELSE LET r == LibraryEdges(SourceEdges(d, entry, row[1], 1), env, entry,
                                        row[1], 1)
                  IN  IF r.err.kind # "none"
                      THEN r
                      ELSE JunctionEntries(r.db, env, inf_entries, k + 1)

(* what a populate hands back: the connection's content, the error, whether it wrote *)
Outcome(r, wrote) == [db |-> r.db, err |-> r.err, wrote |-> wrote]

(* parse() from the environment lookup on: the inserts, then the junction entries *)
InsertRows(d, inf_entries, env) ==
    IF env.err.kind # "none"
    THEN [db |-> d, err |-> env.err, wrote |-> FALSE]
    ELSE Outcome(JunctionEntries(InsertEntries(d, env.value, inf_entries, 1),
                                 env.value, inf_entries, 1),
                 inf_entries # <<>>)

(* the rows built so far are inserted although the resolution raised *)
InsertBuilt_Partial(d, table) ==
    IF table.err.kind # "none" /\ LatestEnvironment(d).err.kind = "none"
    THEN [db |-> InsertEntries(d, LatestEnvironment(d).value,
                               [i \in 1..Len(table.inf_entries) |->
                                   RewriteAbsolute(table.inf_entries[i])], 1),
          err |-> table.err, wrote |-> table.inf_entries # <<>>]
    ELSE InsertRows(d, [i \in 1..Len(table.inf_entries) |->
                           RewriteAbsolute(table.inf_entries[i])],
                    LatestEnvironment(d))

(* parse() after _build_inf_table: an error of the resolution leaves the method
   before any statement is executed *)
InsertBuilt(d, table) ==
    IF table.err.kind # "none"
    THEN [db |-> d, err |-> table.err, wrote |-> FALSE]
    ELSE InsertRows(d, [i \in 1..Len(table.inf_entries) |->
                           RewriteAbsolute(table.inf_entries[i])],
                    LatestEnvironment(d))

InstancedInfTable_parse(self, d) == InsertBuilt(d, _build_inf_table(self, dscp))

----------------------------------------------------------------------------
(* TableGenerator: the interface; both methods raise NotImplementedError *)

TableGenerator_init == Return([kind |-> "TableGenerator"])

(* EnvironmentTable: records one environment row per run, ids ascending *)

EnvironmentTable_init == Return([kind |-> "EnvironmentTable"])

EnvironmentTable_parse(self, d) ==
    [db |-> [d EXCEPT !.environment = Append(@, [id |-> Len(@) + 1])],
     err |-> NoError, wrote |-> TRUE]

----------------------------------------------------------------------------
(* InfTable *)

InfTable_init == Return([kind |-> "InfTable"])

(* INSERT OR REPLACE INTO inf (path, guid, library_class, repo): path is the key *)
INSERT_INF_ROW(d, row) ==
    [d EXCEPT !.inf = {r \in @ : r.path # row.path} \cup {row}]

(* InfTable._parse_file; guid is the FILE_GUID the file holds when it is read *)
_parse_file(filename, guid) ==
    [PATH |-> AsPosix(<<filename>>),
     GUID |-> guid,
     LIBRARY_CLASS |-> IF "LIBRARY_CLASS" \in DOMAIN infs[filename].Dict
                       THEN infs[filename].Dict["LIBRARY_CLASS"] ELSE "",
     SOURCES_USED |-> infs[filename].Sources,
     LIBRARIES_USED |-> infs[filename].libraries,
     REPO |-> "BASE"]

RECURSIVE InfJunction(_, _, _, _, _)

InfJunction(d, path, table2, keys, k) ==
    IF k > Len(keys)
    THEN d
    ELSE InfJunction(INSERT_JUNCTION_ROW(d, "inf", path, table2, keys[k]),
                     path, table2, keys, k + 1)

RECURSIVE InfEntries(_, _, _)

(* for inf_entry in inf_entries *)
InfEntries(d, inf_entries, k) ==
    IF k > Len(inf_entries)
    THEN d
    ELSE LET e == inf_entries[k]
             d1 == INSERT_INF_ROW(d, [path |-> e.PATH, guid |-> e.GUID,
                                      library_class |-> e.LIBRARY_CLASS, repo |-> e.REPO])
             d2 == InfJunction(d1, e.PATH, "library_class", e.LIBRARIES_USED, 1)
             d3 == InfJunction(d2, e.PATH, "source", e.SOURCES_USED, 1)
         IN  InfEntries(d3, inf_entries, k + 1)

InfTable_parse(self, d, files, guids) ==
    [db |-> InfEntries(d, [i \in 1..Len(files) |-> _parse_file(files[i], guids[files[i]])], 1),
     err |-> NoError, wrote |-> files # <<>>]

----------------------------------------------------------------------------
(* InstancedFvTable *)

InstancedFvTable_init(env) ==
    IF "ACTIVE_PLATFORM" \notin DOMAIN env THEN Raise(KeyError("ACTIVE_PLATFORM"))
    ELSE IF "FLASH_DEFINITION" \notin DOMAIN env THEN Raise(KeyError("FLASH_DEFINITION"))
    ELSE IF "TARGET_ARCH" \notin DOMAIN env THEN Raise(KeyError("TARGET_ARCH"))
    ELSE IF "TARGET" \notin DOMAIN env THEN Raise(KeyError("TARGET"))
    ELSE Return([kind |-> "InstancedFvTable",
                 dsc |-> env["ACTIVE_PLATFORM"],
                 fdf |-> env["FLASH_DEFINITION"],
                 arch |-> env["TARGET_ARCH"],
                 target |-> env["TARGET"]])

(* an entry of FVs[fv]["Infs"]: rule is its leading "RuleOverride=..." word, or "" *)
FvInf(e) ==
    LET inf == e.inf   \* inf.split(" ", 1)[-1] when the entry starts with ruleoverride
    IN  AsPosix(IF IsAbsolute(inf) THEN GetEdk2RelativePathFromAbsolutePath(inf) ELSE inf)

(* INSERT INTO instanced_fv (env, fv_name, fdf, path); cursor.lastrowid *)
INSERT_INSTANCED_FV_ROW(d, env, fv_name, fdf, path) ==
    [d EXCEPT !.instanced_fv =
        Append(@, [id |-> Len(@) + 1, env |-> env, fv_name |-> fv_name, fdf |-> fdf,
                   path |-> path])]

RECURSIVE FvJunction(_, _, _, _)

FvJunction(d, fv_id, inf_list, k) ==
    IF k > Len(inf_list)
    THEN d
    ELSE FvJunction(INSERT_JUNCTION_ROW(d, "instanced_fv", fv_id, "inf", inf_list[k]),
                    fv_id, inf_list, k + 1)

RECURSIVE FvEntries(_, _, _, _)

(* for fv in fdfp.FVs *)
FvEntries(self, d, env, k) ==
    IF k > Len(fdfp.FVs)
    THEN d
    ELSE LET fv == fdfp.FVs[k]
             inf_list == [i \in 1..Len(fv.Infs) |-> FvInf(fv.Infs[i])]
             d1 == INSERT_INSTANCED_FV_ROW(d, env, fv.name, PathName(self.fdf), self.fdf)
             fv_id == Len(d1.instanced_fv)
         IN  FvEntries(self, FvJunction(d1, fv_id, inf_list, 1), env, k + 1)

InstancedFvTable_parse(self, d) ==
    LET env == LatestEnvironment(d)
    IN  IF env.err.kind # "none"
        THEN [db |-> d, err |-> env.err, wrote |-> FALSE]
        ELSE [db |-> FvEntries(self, d, env.value, 1), err |-> NoError,
              wrote |-> fdfp.FVs # <<>>]

----------------------------------------------------------------------------
(* Dispatch on the generator's class *)

create_tables(self, d) ==
    CASE self.kind = "TableGenerator" ->
            [db |-> d, err |-> [kind |-> "NotImplementedError"]]
      [] self.kind = "EnvironmentTable" ->
            [db |-> CreateTable(d, {"environment"}), err |-> NoError]
      [] self.kind = "InfTable" ->
            [db |-> CreateTable(d, {"inf", "library_class"}), err |-> NoError]
      [] self.kind = "InstancedFvTable" ->
            [db |-> CreateTable(d, {"instanced_fv"}), err |-> NoError]
      [] self.kind = "InstancedInfTable" ->
            [db |-> InstancedInfTable_create_tables(d), err |-> NoError]

parse_table(self, d, files, guids) ==
    CASE self.kind = "TableGenerator" ->
            [db |-> d, err |-> [kind |-> "NotImplementedError"], wrote |-> FALSE]
      [] self.kind = "EnvironmentTable" -> EnvironmentTable_parse(self, d)
      [] self.kind = "InfTable" -> InfTable_parse(self, d, files, guids)
      [] self.kind = "InstancedFvTable" -> InstancedFvTable_parse(self, d)
      [] self.kind = "InstancedInfTable" -> InstancedInfTable_parse(self, d)

----------------------------------------------------------------------------
(* Bounds *)

MaxParsers == 2      \* registered generators

MaxRuns == 2         \* Edk2DB.parse calls on one store

MaxNeeds == 2        \* library classes one module description lists

MaxNull == 1         \* NULL libraries in one override block

MaxNullLibraries == 2   \* NULL libraries in one override block of the NULL family

----------------------------------------------------------------------------
(* The callers' inputs: the environment mapping handed to a constructor *)

EnvKeys == {"ACTIVE_PLATFORM", "FLASH_DEFINITION", "TARGET_ARCH", "TARGET"}

EnvValue ==
    [ACTIVE_PLATFORM |-> <<"Test.dsc">>, FLASH_DEFINITION |-> <<"Test.fdf">>,
     TARGET_ARCH |-> <<"IA32", "X64">>, TARGET |-> "DEBUG"]

(* every mapping from some of the keys to values; an absent key is drawn as <<>> or "" *)
EnvOf(platform, flash, arch, target) ==
    (IF platform = <<>> THEN <<>> ELSE [ACTIVE_PLATFORM |-> platform])
        @@ (IF flash = <<>> THEN <<>> ELSE [FLASH_DEFINITION |-> flash])
        @@ (IF arch = <<>> THEN <<>> ELSE [TARGET_ARCH |-> arch])
        @@ (IF target = "" THEN <<>> ELSE [TARGET |-> target])

Envs ==
    {EnvOf(platform, flash, arch, target) :
        platform \in {<<>>, <<"Test.dsc">>, <<"Pkg", "Other.dsc">>},
        flash \in {<<>>, <<"Test.fdf">>},
        arch \in {<<>>, <<"IA32", "X64">>, <<"X64">>},
        target \in {"", "DEBUG", "RELEASE"}}

FullEnv == [k \in EnvKeys |-> EnvValue[k]]

(* the mapping the unit tests construct InstancedInfTable with *)
TestEnv == [k \in EnvKeys \ {"FLASH_DEFINITION"} |-> EnvValue[k]]

NoneMade == [cls |-> "", env |-> <<>>, err |-> NoError, value |-> None]

Made(cls, env, r) == [cls |-> cls, env |-> env, err |-> r.err, value |-> r.value]

Guids == {"guid1", "guid2"}

(* ws.glob("**/*.inf"): the module descriptions, in the order the file system lists them *)
Glob ==
    CHOOSE f \in [1..Cardinality(DOMAIN infs) -> DOMAIN infs] :
        \A i, j \in 1..Cardinality(DOMAIN infs) : f[i] = f[j] => i = j

(* the FILE_GUIDs the module descriptions hold at one reading of the workspace *)
GuidReadings == {[f \in DOMAIN infs |-> g] : g \in Guids}

----------------------------------------------------------------------------
(* The callers' steps: constructing generators *)

NewTableGenerator ==
    /\ pc = "new"
    /\ made' = Made("TableGenerator", <<>>, TableGenerator_init)
    /\ UNCHANGED <<infs, dscp, fdfp, parsers, db, in_transaction, disk, pc, idx, log,
                   raised, failed, built, runs>>

NewEnvironmentTable ==
    /\ pc = "new"
    /\ made' = Made("EnvironmentTable", <<>>, EnvironmentTable_init)
    /\ UNCHANGED <<infs, dscp, fdfp, parsers, db, in_transaction, disk, pc, idx, log,
                   raised, failed, built, runs>>

NewInfTable ==
    /\ pc = "new"
    /\ made' = Made("InfTable", <<>>, InfTable_init)
    /\ UNCHANGED <<infs, dscp, fdfp, parsers, db, in_transaction, disk, pc, idx, log,
                   raised, failed, built, runs>>

NewInstancedFvTable ==
    /\ pc = "new"
    /\ \E env \in Envs : made' = Made("InstancedFvTable", env, InstancedFvTable_init(env))
    /\ UNCHANGED <<infs, dscp, fdfp, parsers, db, in_transaction, disk, pc, idx, log,
                   raised, failed, built, runs>>

NewInstancedInfTable ==
    /\ pc = "new"
    /\ \E env \in Envs : made' = Made("InstancedInfTable", env, InstancedInfTable_init(env))
    /\ UNCHANGED <<infs, dscp, fdfp, parsers, db, in_transaction, disk, pc, idx, log,
                   raised, failed, built, runs>>

----------------------------------------------------------------------------
(* Edk2DB *)

(* the generators a caller can hand to register: those whose constructor returned *)
Generators ==
    {TableGenerator_init.value, EnvironmentTable_init.value, InfTable_init.value}
        \cup {InstancedFvTable_init(FullEnv).value, InstancedInfTable_init(TestEnv).value}

(* register(parser) *)
register ==
    /\ pc = "idle"
    /\ Len(parsers) < MaxParsers
    /\ \E parser \in Generators : parsers' = Append(parsers, parser)
    /\ UNCHANGED <<infs, dscp, fdfp, made, db, in_transaction, disk, pc, idx, log, raised,
                   failed, built, runs>>

clear_parsers ==
    /\ pc = "idle"
    /\ parsers' = <<>>
    /\ UNCHANGED <<infs, dscp, fdfp, made, db, in_transaction, disk, pc, idx, log, raised,
                   failed, built, runs>>

(* a statement that creates a table: sqlite3 opens no transaction for it, so it is
   durable at once unless a transaction is already open *)
ExecuteDDL(d) ==
    /\ db' = d
    /\ disk' = IF in_transaction THEN disk ELSE [disk EXCEPT !.tables = d.tables]

(* parse(), "Create the junction table" *)
parse_begin ==
    /\ pc = "idle"
    /\ runs < MaxRuns
    /\ runs' = runs + 1
    /\ ExecuteDDL(CreateTable(db, {"junction"}))
    /\ log' = IF parsers = <<>> THEN <<<<"junction", 0>>, <<"return", 0>>>>
               ELSE <<<<"junction", 0>>>>
    /\ raised' = NoError
    /\ idx' = 1
    /\ pc' = IF parsers = <<>> THEN "idle" ELSE "create"
    /\ UNCHANGED <<infs, dscp, fdfp, made, parsers, in_transaction, failed, built>>

(* a create-tables loop that ends after its first turn: the two loops of parse()
   fused into one *)
LastCreateTurnFused == TRUE

(* parse(), "for parser in self._parsers": whether this turn is the loop's last *)
LastCreateTurn == idx = Len(parsers)

(* parse(), "Create all tables": one turn of the loop *)
parse_create_tables ==
    /\ pc = "create"
    /\ \E r \in {create_tables(parsers[idx], db)} :
           /\ log' = Append(log, <<"create_tables", idx>>)
           /\ IF r.err.kind # "none"
              THEN /\ pc' = "raised"
                   /\ raised' = r.err
                   /\ UNCHANGED <<db, disk, idx>>
              ELSE /\ ExecuteDDL(r.db)
                   /\ raised' = raised
                   /\ idx' = IF LastCreateTurn THEN 1 ELSE idx + 1
                   /\ pc' = IF LastCreateTurn THEN "fill" ELSE "create"
    /\ UNCHANGED <<infs, dscp, fdfp, made, parsers, in_transaction, failed, built, runs>>

(* parse(), "Fill all tables": parser.parse(cursor, pathobj) of one turn of the loop *)
parse_populate ==
    /\ pc = "fill"
    /\ \E guids \in IF parsers[idx].kind = "InfTable" THEN GuidReadings ELSE {<<>>} :
          \E r \in {parse_table(parsers[idx], db, Glob, guids)} :
              /\ db' = r.db
              /\ in_transaction' = (in_transaction \/ r.wrote)
              /\ log' = Append(log, <<"parse", idx>>)
              /\ raised' = r.err
              /\ built' = IF parsers[idx].kind = "InstancedInfTable"
                          THEN _build_inf_table(parsers[idx], dscp)
                          ELSE built
              /\ IF r.err.kind # "none"
                 THEN /\ pc' = "raised"
                      /\ failed' = [before |-> db, after |-> r.db, disk |-> disk]
                 ELSE /\ pc' = "commit"
                      /\ failed' = failed
    /\ UNCHANGED <<infs, dscp, fdfp, made, parsers, disk, idx, runs>>

(* parse(), self.connection.commit() of the same turn *)
parse_commit ==
    /\ pc = "commit"
    /\ disk' = db
    /\ in_transaction' = FALSE
    /\ log' = IF idx = Len(parsers)
               THEN log \o <<<<"commit", idx>>, <<"return", 0>>>>
               ELSE Append(log, <<"commit", idx>>)
    /\ idx' = IF idx = Len(parsers) THEN idx ELSE idx + 1
    /\ pc' = IF idx = Len(parsers) THEN "idle" ELSE "fill"
    /\ UNCHANGED <<infs, dscp, fdfp, made, parsers, db, raised, failed, built, runs>>

(* the caller catches the exception that left parse() and goes on *)
catch ==
    /\ pc = "raised"
    /\ pc' = "idle"
    /\ UNCHANGED <<infs, dscp, fdfp, made, parsers, db, in_transaction, disk, idx, log,
                   raised, failed, built, runs>>

(* __exit__: the with block is left, normally or by the exception *)
exit ==
    /\ pc \in {"idle", "raised"}
    /\ disk' = db
    /\ in_transaction' = FALSE
    /\ pc' = "closed"
    /\ UNCHANGED <<infs, dscp, fdfp, made, parsers, db, idx, log, raised, failed, built, runs>>

----------------------------------------------------------------------------
(* Workspaces *)

Rel(file) == <<file>>

Abs(file) == <<"/", "ws", file>>

(* the InfParser view of a module description *)
Module(name, module_type, library_class, libraries) ==
    [Dict |-> IF library_class = ""
              THEN [BASE_NAME |-> name, MODULE_TYPE |-> module_type]
              ELSE [BASE_NAME |-> name, MODULE_TYPE |-> module_type,
                    LIBRARY_CLASS |-> library_class],
     libraries |-> libraries,
     Sources |-> <<<<"Source.c">>>>]

NoOverrides == [NULL |-> <<>>]

Component(inf, arch, overrides) == [inf |-> inf, scope |-> <<arch>>, overrides |-> overrides]

NoBuilt == [inf_entries |-> <<>>, expansions |-> <<>>, err |-> NoError]

(* the workspaces of the orchestrator's runs: one driver that needs ClsA, and a
   platform description that maps ClsA to a library by its relative path, does not
   map it, or maps it by an absolute path *)
SmallInfs ==
    [f \in {"C1.inf", "L1.inf"} |->
        IF f = "C1.inf" THEN Module("C1", "DXE_DRIVER", "", <<"ClsA">>)
        ELSE Module("L1", "BASE", "ClsA", <<>>)]

SmallDscs ==
    {[Components |-> <<Component(Rel("C1.inf"), "ia32", NoOverrides)>>,
      ScopedLibraryDict |-> d] :
        d \in {<<>>, (<<"common", "clsa">> :> Rel("L1.inf")),
               (<<"common", "clsa">> :> Abs("L1.inf"))}}

SmallFdf ==
    [FVs |-> <<[name |-> "FVMAIN",
                Infs |-> <<[rule |-> "RuleOverride=RESET", inf |-> Abs("C1.inf")]>>]>>]

Init ==
    /\ infs = SmallInfs
    /\ dscp \in SmallDscs
    /\ fdfp = SmallFdf
    /\ made = NoneMade
    /\ parsers = <<>>
    /\ db = EmptyDb
    /\ in_transaction = FALSE
    /\ disk = EmptyDb
    /\ pc = "idle"
    /\ idx = 1
    /\ log = <<>>
    /\ raised = NoError
    /\ failed = None
    /\ built = NoBuilt
    /\ runs = 0

Next ==
    \/ register
    \/ clear_parsers
    \/ parse_begin
    \/ parse_create_tables
    \/ parse_populate
    \/ parse_commit
    \/ catch
    \/ exit

Spec == Init /\ [][Next]_vars

----------------------------------------------------------------------------
(* Constructing generators: every constructor on every environment mapping *)

InitNew ==
    /\ infs = SmallInfs
    /\ dscp \in SmallDscs
    /\ fdfp = SmallFdf
    /\ made = NoneMade
    /\ parsers = <<>>
    /\ db = EmptyDb
    /\ in_transaction = FALSE
    /\ disk = EmptyDb
    /\ pc = "new"
    /\ idx = 1
    /\ log = <<>>
    /\ raised = NoError
    /\ failed = None
    /\ built = NoBuilt
    /\ runs = 0

NextNew ==
    \/ NewTableGenerator
    \/ NewEnvironmentTable
    \/ NewInfTable
    \/ NewInstancedFvTable
    \/ NewInstancedInfTable

SpecNew == InitNew /\ [][NextNew]_vars

----------------------------------------------------------------------------
(* InstancedInfTable.parse on every platform description of a bounded family:
   the store is the one Edk2DB.parse hands it after register(EnvironmentTable(),
   InstancedInfTable(env = TestEnv)) and the EnvironmentTable turn *)

Classes == {"ClsA", "ClsB"}

LibraryPaths == {Rel("L1.inf"), Rel("L2.inf"), Rel("L3.inf")}

NeedsLists(n) == UNION {[1..k -> Classes] : k \in 0..n}

NullLists == UNION {[1..k -> {Rel("L2.inf"), Rel("L3.inf")}] : k \in 0..MaxNull}

(* overrides of one component: ClsA overridden or not, and the NULL libraries *)
OverrideBlocks ==
    {[NULL |-> nulls] : nulls \in NullLists}
        \cup {[NULL |-> nulls, clsa |-> Rel("L2.inf")] : nulls \in NullLists}

Infs(c1, l1, l2, l3) ==
    [f \in {"C1.inf", "C2.inf", "L1.inf", "L2.inf", "L3.inf"} |->
        CASE f = "C1.inf" -> Module("C1", "PEIM", "", c1)
          [] f = "C2.inf" -> Module("C2", "SEC", "", <<"ClsA">>)
          [] f = "L1.inf" -> Module("L1", "BASE", "ClsA", l1)
          [] f = "L2.inf" -> Module("L2", "BASE", "ClsB", l2)
          [] f = "L3.inf" -> Module("L3", "BASE", "NULL", l3)]

(* the component lists: C1 alone, by its relative or its absolute path; C1 and a
   second driver C2 of another architecture, in both orders; C1 after the library L1
   listed as a component *)
ComponentLists(arch, overrides) ==
    {<<Component(Rel("C1.inf"), arch, overrides)>>,
     <<Component(Abs("C1.inf"), arch, overrides)>>,
     <<Component(Rel("C1.inf"), arch, overrides), Component(Rel("C2.inf"), "x64", NoOverrides)>>,
     <<Component(Rel("C2.inf"), "x64", NoOverrides), Component(Rel("C1.inf"), arch, overrides)>>,
     <<Component(Rel("L1.inf"), arch, NoOverrides), Component(Rel("C1.inf"), arch, overrides)>>}

(* every map from some of the keys to library paths *)
Maps(keys) == UNION {[K -> LibraryPaths] : K \in SUBSET keys}

(* scope family: C1 needs ClsA; ClsA is mapped at any of the four levels of
   ia32.peim, and maybe at a level of another scope *)
ScopeKeys ==
    {<<"ia32", "peim", "clsa">>, <<"common", "peim", "clsa">>, <<"ia32", "clsa">>,
     <<"common", "clsa">>}

OtherScopeMaps ==
    {<<>>, (<<"x64", "clsa">> :> Rel("L3.inf")),
     (<<"common", "sec", "clsa">> :> Rel("L3.inf")),
     (<<"x64", "peim", "clsa">> :> Rel("L3.inf"))}

ScopeWorkspaces ==
    \E m \in Maps(ScopeKeys), o \in OtherScopeMaps, arch \in {"ia32", "common"},
       ov \in {NoOverrides, [NULL |-> <<>>, clsa |-> Rel("L2.inf")]} :
        /\ infs = Infs(<<"ClsA">>, <<>>, <<>>, <<>>)
        /\ dscp = [Components |-> <<Component(Rel("C1.inf"), arch, ov)>>,
                   ScopedLibraryDict |-> m @@ o]

(* ClsA is mapped to L1 for every scope and ClsB to any library or to none *)
GraphMaps ==
    {(<<"common", "clsa">> :> Rel("L1.inf")) @@ b :
        b \in Maps({<<"common", "clsb">>})}

(* graph family: C1 alone without overrides; the driver and L1 list up to MaxNeeds
   classes, L2 and L3 up to one *)
GraphWorkspaces ==
    \E c1 \in NeedsLists(MaxNeeds), l1 \in NeedsLists(MaxNeeds),
       l2 \in NeedsLists(1), l3 \in NeedsLists(1), m \in GraphMaps :
        /\ infs = Infs(c1, l1, l2, l3)
        /\ dscp = [Components |-> <<Component(Rel("C1.inf"), "ia32", NoOverrides)>>,
                   ScopedLibraryDict |-> m]

(* override family: every component list and every override block of C1 *)
OverrideWorkspaces ==
    \E c1 \in NeedsLists(MaxNeeds), l1 \in NeedsLists(1), l2 \in {<<>>, <<"ClsA">>},
       m \in GraphMaps, ov \in OverrideBlocks :
        \E components \in ComponentLists("ia32", ov) :
            /\ infs = Infs(c1, l1, l2, <<>>)
            /\ dscp = [Components |-> components, ScopedLibraryDict |-> m]

(* NULL family: C1 alone or before C2; its block declares up to MaxNullLibraries
   NULL libraries out of L2 and L3, which need up to one class themselves *)
NullBlocks ==
    {[NULL |-> nulls] :
        nulls \in UNION {[1..k -> {Rel("L2.inf"), Rel("L3.inf")}] : k \in 0..MaxNullLibraries}}

NullWorkspaces ==
    \E c1 \in NeedsLists(1), l2 \in NeedsLists(1), l3 \in NeedsLists(1), m \in GraphMaps,
       ov \in NullBlocks :
        \E components \in
               {<<Component(Rel("C1.inf"), "ia32", ov)>>,
                <<Component(Rel("C1.inf"), "ia32", ov),
                  Component(Rel("C2.inf"), "x64", NoOverrides)>>} :
            /\ infs = Infs(c1, <<>>, l2, l3)
            /\ dscp = [Components |-> components, ScopedLibraryDict |-> m]

PreparedDb ==
    [EmptyDb EXCEPT !.tables = {"junction", "environment", "instanced_inf"},
                    !.environment = <<[id |-> 1]>>]

InitInf ==
    /\ \/ ScopeWorkspaces
       \/ GraphWorkspaces
       \/ OverrideWorkspaces
       \/ NullWorkspaces
    /\ fdfp = SmallFdf
    /\ made = NoneMade
    /\ parsers = <<EnvironmentTable_init.value, InstancedInfTable_init(TestEnv).value>>
    /\ db = PreparedDb
    /\ in_transaction = FALSE
    /\ disk = PreparedDb
    /\ pc = "fill"
    /\ idx = 2
    /\ log = <<<<"junction", 0>>, <<"create_tables", 1>>, <<"create_tables", 2>>,
               <<"parse", 1>>, <<"commit", 1>>>>
    /\ raised = NoError
    /\ failed = None
    /\ built = NoBuilt
    /\ runs = 1

NextInf ==
    \/ parse_populate
    \/ parse_commit

SpecInf == InitInf /\ [][NextInf]_vars

----------------------------------------------------------------------------
(* Properties *)

IsPrefix(s, t) == Len(s) <= Len(t) /\ \A i \in 1..Len(s) : s[i] = t[i]

Last(s) == s[Len(s)]

(* the calls of one complete parse() over n generators *)
Turns(n, what) == [i \in 1..n |-> <<what, i>>]

Fills(n) == [i \in 1..(2 * n) |-> IF i % 2 = 1 THEN <<"parse", (i + 1) \div 2>>
                                ELSE <<"commit", i \div 2>>]

CompleteRun(n) ==
    <<<<"junction", 0>>>> \o Turns(n, "create_tables") \o Fills(n) \o <<<<"return", 0>>>>

InRun == pc \in {"create", "fill", "commit", "raised"}

(* C1: parse() first ensures the junction table, then calls create_tables on every
   registered generator in registration order, and only then parse on every
   generator in registration order, committing exactly once right after each parse
   returns and before the next one starts: the calls made so far are always an
   initial part of that one sequence, the junction table exists from the first
   call on, no parse starts before the last create_tables, and the store on disk is
   the connection's content whenever the next parse is about to start *)
C1_ParseOrder ==
    /\ InRun => /\ IsPrefix(log, CompleteRun(Len(parsers)))
                /\ "junction" \in db.tables
    /\ pc \in {"fill", "commit"} =>
          \A i \in 1..Len(parsers) : InList(<<"create_tables", i>>, log)
    /\ pc = "fill" /\ idx > 1 => /\ Last(log) = <<"commit", idx - 1>>
                                 /\ disk = db
    /\ pc = "commit" => Last(log) = <<"parse", idx>>
    /\ log # <<>> /\ Last(log) = <<"return", 0>> =>
          \E n \in 0..MaxParsers + 1 : log = CompleteRun(n)

(* C1 witness: a run over two generators has returned *)
C1_Witness ==
    /\ pc = "idle"
    /\ Len(parsers) = 2
    /\ log = CompleteRun(2)

(* C2: when the k-th generator's parse raises, the error reaches the caller, no
   later generator is parsed, what generators 1..k-1 committed stays in the store,
   and nothing the failing generator wrote ever becomes durable, also after
   __exit__ *)
C2_FailedWritesNeverDurable ==
    failed # None =>
        /\ pc = "raised" /\ InList(<<"parse", idx>>, log) =>
              /\ raised.kind # "none"
              /\ Last(log) = <<"parse", idx>>
        /\ IsPrefix(failed.disk.instanced_inf, disk.instanced_inf)
        /\ IsPrefix(failed.disk.instanced_fv, disk.instanced_fv)
        /\ IsPrefix(failed.disk.junction, disk.junction)
        /\ IsPrefix(failed.disk.environment, disk.environment)
        /\ Len(failed.after.instanced_inf) > Len(failed.before.instanced_inf) =>
              Len(disk.instanced_inf) <= Len(failed.before.instanced_inf)
        /\ Len(failed.after.junction) > Len(failed.before.junction) =>
              Len(disk.junction) <= Len(failed.before.junction)

(* C9: InstancedInfTable(env = mapping) raises a KeyError naming a missing key when
   the mapping lacks ACTIVE_PLATFORM, TARGET_ARCH or TARGET, and returns a generator
   when it has all three, with or without FLASH_DEFINITION; nothing is registered,
   run or written by the construction *)
C9_RequiredKeys ==
    made.cls = "InstancedInfTable" =>
        LET missing == {"ACTIVE_PLATFORM", "TARGET_ARCH", "TARGET"} \ DOMAIN made.env
        IN  /\ missing # {} => /\ made.err.kind = "KeyError"
                               /\ made.err.key \in missing
                               /\ made.value = None
            /\ missing = {} => /\ made.err.kind = "none"
                               /\ made.value # None
                               /\ made.value.dsc = made.env["ACTIVE_PLATFORM"]
            /\ parsers = <<>> /\ log = <<>> /\ db = EmptyDb /\ disk = EmptyDb

(* C9 witness: a mapping with the platform and the architectures but no TARGET *)
C9_Witness ==
    /\ made.cls = "InstancedInfTable"
    /\ DOMAIN made.env = {"ACTIVE_PLATFORM", "TARGET_ARCH"}
    /\ made.err = KeyError("TARGET")

Paths(rows) == {r.path : r \in rows}

(* C10 as amended: a committed instanced_fv or instanced_inf row or junction edge is
   never changed or removed by anything that follows, and a committed inf row is at
   most replaced by a row of the same path *)
C10_CommittedRowsKept ==
    [][/\ IsPrefix(disk.instanced_fv, disk'.instanced_fv)
       /\ IsPrefix(disk.instanced_inf, disk'.instanced_inf)
       /\ IsPrefix(disk.junction, disk'.junction)
       /\ Paths(disk.inf) \subseteq Paths(disk'.inf)]_vars

(* C10 as stated: no committed row of inf, instanced_fv or instanced_inf and no
   committed junction edge is ever updated, replaced or deleted *)
C10_NeverReplaced ==
    [][/\ IsPrefix(disk.instanced_fv, disk'.instanced_fv)
       /\ IsPrefix(disk.instanced_inf, disk'.instanced_inf)
       /\ IsPrefix(disk.junction, disk'.junction)
       /\ disk.inf \subseteq disk'.inf]_vars

(* C10 witness: a second run of the inf generator is committed: its edges stand
   beside the first run's, and the rows carry what the second run read *)
C10_Witness ==
    /\ runs = 2
    /\ pc = "idle"
    /\ \E i, j \in 1..Len(disk.junction) :
          /\ i < j
          /\ disk.junction[i][1] = "inf"
          /\ disk.junction[j][1] = "inf"
          /\ disk.junction[i] = disk.junction[j]
    /\ \A r \in disk.inf : r.guid = "guid2"
    /\ disk.inf # {}

----------------------------------------------------------------------------
(* Properties of the resolution generator *)

(* the generator whose populate built the rows at hand *)
Resolver == parsers[2]

(* its populate has run on the platform description *)
Populated == built # NoBuilt

Succeeded == Populated /\ built.err.kind = "none"

(* the declared components that the top-level loop expands *)
Expanded == {k \in 1..Len(dscp.Components) :
                "LIBRARY_CLASS" \notin DOMAIN InfP(dscp.Components[k].inf).Dict}

(* the places a class can be bound for a scope, first to last *)
Candidates(c, scope, library_dict, override_dict) ==
    <<[present |-> c \in DOMAIN override_dict,
       value |-> IF c \in DOMAIN override_dict THEN override_dict[c] ELSE None],
      [present |-> <<scope[1], scope[2], c>> \in DOMAIN library_dict,
       value |-> IF <<scope[1], scope[2], c>> \in DOMAIN library_dict
                 THEN library_dict[<<scope[1], scope[2], c>>] ELSE None],
      [present |-> <<"common", scope[2], c>> \in DOMAIN library_dict,
       value |-> IF <<"common", scope[2], c>> \in DOMAIN library_dict
                 THEN library_dict[<<"common", scope[2], c>>] ELSE None],
      [present |-> <<scope[1], c>> \in DOMAIN library_dict,
       value |-> IF <<scope[1], c>> \in DOMAIN library_dict
                 THEN library_dict[<<scope[1], c>>] ELSE None],
      [present |-> <<"common", c>> \in DOMAIN library_dict,
       value |-> IF <<"common", c>> \in DOMAIN library_dict
                 THEN library_dict[<<"common", c>>] ELSE None]>>

FirstCandidate(c, scope, library_dict, override_dict) ==
    LET cands == Candidates(c, scope, library_dict, override_dict)
        there == {i \in 1..5 : cands[i].present}
    IN  IF there = {} THEN None ELSE <<cands[Min(there)].value>>

Scopes ==
    {<<a, m>> : a \in {"ia32", "x64", "common"}, m \in {"peim", "sec", "base"}}

(* C3: for every class, scope ARCH.MODULETYPE, scoped map and override map,
   _lib_to_instance returns the first existing entry of: the override for the class,
   the map entries ARCH.MODULETYPE.C, common.MODULETYPE.C, ARCH.C, common.C, a later
   one only when every earlier one is absent; and the rows a populate builds name,
   for every needed class, exactly that entry *)
C3_ScopePriority ==
    /\ \A k \in 1..Len(dscp.Components), c \in {"clsa", "clsb"}, scope \in Scopes :
          LET ov == dscp.Components[k].overrides
              first == FirstCandidate(c, scope, dscp.ScopedLibraryDict, ov)
              r == _lib_to_instance(Resolver, c, scope, dscp.ScopedLibraryDict, ov)
          IN  IF first = None THEN r.err.kind = "RuntimeError"
              ELSE r.err.kind = "none" /\ r.value = first[1]
    /\ Populated =>
          \A e \in Range(built.expansions) : \A row \in Range(e.rows) :
              LET comp == dscp.Components[e.k]
                  needs == infs[PathName(row.PATH)].libraries
              IN  \A i \in 1..Len(needs) :
                      LET first == FirstCandidate(Lower(needs[i]), ComponentScope(comp),
                                                  dscp.ScopedLibraryDict, comp.overrides)
                      IN  first # None /\ row.LIBRARIES_USED[i] = AsPosix(first[1])

(* C3 witness: the class is bound at the three lower levels to three different
   libraries and not overridden, and the committed rows hold the common.MODULETYPE
   one *)
C3_Witness ==
    /\ pc = "idle"
    /\ Len(dscp.Components) = 1
    /\ dscp.Components[1].scope = <<"ia32">>
    /\ "clsa" \notin DOMAIN dscp.Components[1].overrides
    /\ DOMAIN dscp.ScopedLibraryDict = ScopeKeys \ {<<"ia32", "peim", "clsa">>}
    /\ dscp.ScopedLibraryDict[<<"common", "peim", "clsa">>] = Rel("L2.inf")
    /\ dscp.ScopedLibraryDict[<<"ia32", "clsa">>] = Rel("L1.inf")
    /\ dscp.ScopedLibraryDict[<<"common", "clsa">>] = Rel("L3.inf")
    /\ Len(disk.instanced_inf) = 2
    /\ disk.instanced_inf[1].path = Rel("L2.inf")

(* the modules one node pulls in for a component *)
Successors(n, comp) ==
    LET res == Resolutions(Resolver, n, dscp.ScopedLibraryDict, comp.overrides,
                           ComponentScope(comp))
    IN  {res[i].value : i \in {j \in DOMAIN res : res[j].err.kind = "none"}}
            \cup Range(NullLibraries(n, comp.overrides))

RECURSIVE Closure(_, _)

Closure(nodes, comp) ==
    LET more == nodes \cup UNION {Successors(n, comp) : n \in nodes}
    IN  IF more = nodes THEN nodes ELSE Closure(more, comp)

(* the dependency tree of a component: the component and all it transitively pulls in *)
Tree(comp) == Closure({comp.inf}, comp)

(* the classes a node needs that are bound nowhere for the component *)
UnboundAt(n, comp) ==
    LET libs == InfP(n).libraries
    IN  {Lower(libs[i]) :
            i \in {j \in 1..Len(libs) :
                      FirstCandidate(Lower(libs[j]), ComponentScope(comp),
                                     dscp.ScopedLibraryDict, comp.overrides) = None}}

Unbound(comp) == UNION {UnboundAt(n, comp) : n \in Tree(comp)}

(* C4: if a node of the dependency tree of a component needs a class that has no
   override and no entry at any of the four levels, populate raises a RuntimeError
   that names such a class and the component's scope, and inserts no instanced_inf
   row and no junction edge, also none for earlier components that resolved *)
C4_UnresolvedIsFatal ==
    Populated /\ (\E k \in Expanded : Unbound(dscp.Components[k]) # {}) =>
        /\ raised.kind = "RuntimeError"
        /\ \E k \in Expanded :
              /\ raised.cls \in Unbound(dscp.Components[k])
              /\ raised.scope = ComponentScope(dscp.Components[k])
        /\ raised.dsc = Resolver.dsc
        /\ pc = "raised"
        /\ failed # None
        /\ failed.after = failed.before
        /\ db.instanced_inf = <<>> /\ db.junction = <<>>
        /\ disk.instanced_inf = <<>> /\ disk.junction = <<>>

(* C4 witness: the first component resolved completely, the second needs a class
   that is bound nowhere *)
C4_Witness ==
    /\ pc = "raised"
    /\ Len(dscp.Components) = 2
    /\ Expanded = {1, 2}
    /\ Unbound(dscp.Components[1]) = {}
    /\ Unbound(dscp.Components[2]) = {"clsb"}
    /\ Len(built.expansions) = 2
    /\ built.expansions[1].rows # <<>>
    /\ raised.kind = "RuntimeError"

(* the class that the override blocks of the model rebind *)
OverriddenClass == "clsa"

Overriding ==
    {k \in Expanded :
        /\ OverriddenClass \in DOMAIN dscp.Components[k].overrides
        /\ \E i \in 1..Len(InfP(dscp.Components[k].inf).libraries) :
              Lower(InfP(dscp.Components[k].inf).libraries[i]) = OverriddenClass}

Count(rows, Test(_)) == Cardinality({i \in 1..Len(rows) : Test(rows[i])})

(* C5: for a component that needs class C and overrides C to L, the rows built for
   the component hold exactly one row of path L owned by the component, every node
   of its tree that needs C is bound to L and not to the platform-wide instance, the
   committed rows hold that one row too, and a component without the override is
   bound to the platform-wide instance *)
C5_OverrideWins ==
    Succeeded =>
        \A e \in Range(built.expansions) :
            LET comp == dscp.Components[e.k]
                owner == AsPosix(comp.inf)
            IN  /\ e.k \in Overriding =>
                      LET L == AsPosix(comp.overrides[OverriddenClass])
                      IN  /\ Count(e.rows, LAMBDA row : row.PATH = L /\ row.COMPONENT = owner) = 1
                          /\ \A row \in Range(e.rows) :
                                \A i \in 1..Len(infs[PathName(row.PATH)].libraries) :
                                    Lower(infs[PathName(row.PATH)].libraries[i]) = OverriddenClass
                                        => row.LIBRARIES_USED[i] = L
                          /\ pc = "idle" =>
                                Count(disk.instanced_inf,
                                      LAMBDA r : r.path = L /\ r.component = owner) = 1
                /\ e.k \notin Overriding /\ OverriddenClass \notin DOMAIN comp.overrides =>
                      \A row \in Range(e.rows) :
                          \A i \in 1..Len(infs[PathName(row.PATH)].libraries) :
                              Lower(infs[PathName(row.PATH)].libraries[i]) = OverriddenClass
                                  => <<row.LIBRARIES_USED[i]>> =
                                        FirstCandidate(OverriddenClass, ComponentScope(comp),
                                                       dscp.ScopedLibraryDict, NoOverrides)

(* C5 witness: C1 overrides ClsA to L2, and L2 needs ClsA itself; C2 beside it has
   no override; the rows are committed *)
C5_Witness ==
    /\ pc = "idle"
    /\ Succeeded
    /\ Len(dscp.Components) = 2
    /\ Overriding # {}
    /\ Expanded \ Overriding # {}
    /\ infs["L2.inf"].libraries = <<"ClsA">>
    /\ \E i, j \in 1..Len(disk.instanced_inf) :
          /\ disk.instanced_inf[i].path = Rel("L2.inf")
          /\ disk.instanced_inf[i].component = Rel("C1.inf")
          /\ disk.instanced_inf[j].path = Rel("L1.inf")
          /\ disk.instanced_inf[j].component = Rel("C2.inf")

(* C6: within the expansion of one component every module path yields at most one
   row: each module of the component's tree, however often it is reached or listed,
   has exactly one row, owned by the component; and the committed rows of one owner
   have different paths *)
C6_OneRowPerModule ==
    Succeeded =>
        /\ \A e \in Range(built.expansions) :
              LET comp == dscp.Components[e.k]
              IN  /\ \A i, j \in 1..Len(e.rows) : e.rows[i].PATH = e.rows[j].PATH => i = j
                  /\ {row.PATH : row \in Range(e.rows)} = {AsPosix(n) : n \in Tree(comp)}
                  /\ \A row \in Range(e.rows) : row.COMPONENT = AsPosix(comp.inf)
        /\ \A i, j \in 1..Len(db.instanced_inf) :
              /\ db.instanced_inf[i].component # None
              /\ db.instanced_inf[i].component = db.instanced_inf[j].component
              /\ db.instanced_inf[i].path = db.instanced_inf[j].path
              => i = j

(* C6 witness: a node lists the same library twice, and another library is reached
   from two ancestors; the rows are committed *)
C6_Witness ==
    /\ pc = "idle"
    /\ Succeeded
    /\ \E e \in Range(built.expansions) :
          /\ \E row \in Range(e.rows) :
                Len(row.LIBRARIES_USED) = 2 /\ row.LIBRARIES_USED[1] = row.LIBRARIES_USED[2]
          /\ \E r1, r2 \in Range(e.rows) :
                /\ r1.PATH # r2.PATH
                /\ \E p \in Range(r1.LIBRARIES_USED) :
                      /\ InList(p, r2.LIBRARIES_USED)
                      /\ p # r1.PATH /\ p # r2.PATH
    /\ disk.instanced_inf # <<>>

RECURSIVE Flatten(_)

(* the rows of all expansions, in the order they were built *)
Flatten(expansions) ==
    IF expansions = <<>> THEN <<>>
    ELSE expansions[1].rows \o Flatten(Tail(expansions))

(* what C7 says of every row of the returned list *)
NullOwnerIffRoot ==
    LET pre == Flatten(built.expansions)
    IN  /\ Len(built.inf_entries) = Len(pre)
        /\ \A i \in 1..Len(pre) :
              /\ built.inf_entries[i].PATH = pre[i].PATH
              /\ IF pre[i].PATH = pre[i].COMPONENT
                 THEN built.inf_entries[i].COMPONENT = None
                 ELSE /\ built.inf_entries[i].COMPONENT = pre[i].COMPONENT
                      /\ built.inf_entries[i].COMPONENT # None

NullOwnerRows(k) ==
    Count(built.inf_entries,
          LAMBDA row : row.COMPONENT = None /\ row.PATH = AsPosix(dscp.Components[k].inf))

(* C7 as amended: in the rows _build_inf_table returns, a row whose path equals its
   owning component has the owner null and every other row a non-null owner, and
   there is exactly one null-owner row per declared component that does not itself
   declare a library class, and none beside these *)
C7_NullOwnerPerExpanded ==
    Succeeded =>
        /\ NullOwnerIffRoot
        /\ \A k \in Expanded : NullOwnerRows(k) = 1
        /\ Count(built.inf_entries, LAMBDA row : row.COMPONENT = None) = Cardinality(Expanded)

(* C7 as stated: the same of the rows, and exactly one null-owner row per component
   declared in the platform description *)
C7_NullOwnerPerDeclared ==
    Succeeded =>
        /\ NullOwnerIffRoot
        /\ \A k \in 1..Len(dscp.Components) : NullOwnerRows(k) = 1

(* C7 witness: a library is listed as a component before a driver that uses it: the
   driver's row has no owner, the library's row is owned by the driver *)
C7_Witness ==
    /\ Succeeded
    /\ Len(dscp.Components) = 2
    /\ Expanded = {2}
    /\ \E i, j \in 1..Len(built.inf_entries) :
          /\ built.inf_entries[i].COMPONENT = None
          /\ built.inf_entries[i].PATH = AsPosix(dscp.Components[2].inf)
          /\ built.inf_entries[j].PATH = AsPosix(dscp.Components[1].inf)
          /\ built.inf_entries[j].COMPONENT = AsPosix(dscp.Components[2].inf)

(* the platform description without the components that declare a library class *)
WithoutLibraries ==
    [dscp EXCEPT !.Components =
        SelectSeq(@, LAMBDA comp : "LIBRARY_CLASS" \notin DOMAIN InfP(comp.inf).Dict)]

(* one driver without library needs beside libraries listed as components *)
OneRealComponent ==
    /\ Cardinality(Expanded) = 1
    /\ Len(dscp.Components) = 2
    /\ \A k \in Expanded :
          /\ InfP(dscp.Components[k].inf).libraries = <<>>
          /\ dscp.Components[k].overrides["NULL"] = <<>>

(* C8: a module listed as a component that declares a library class is skipped: no
   expansion is made for it, its needs are not resolved, and the rows are those of
   the platform description without it; one driver without library needs beside one
   such library persists exactly one row, the driver's *)
C8_LibraryComponentSkipped ==
    Populated =>
        /\ \A e \in Range(built.expansions) : e.k \in Expanded
        /\ built.inf_entries = _build_inf_table(Resolver, WithoutLibraries).inf_entries
        /\ built.err = _build_inf_table(Resolver, WithoutLibraries).err
        /\ OneRealComponent =>
              /\ raised.kind = "none"
              /\ Len(db.instanced_inf) = 1
              /\ \A k \in Expanded :
                    /\ db.instanced_inf[1].path = AsPosix(dscp.Components[k].inf)
                    /\ db.instanced_inf[1].component = None
              /\ pc = "idle" => disk.instanced_inf = db.instanced_inf

(* C8 witness: the library listed as a component needs a class that is bound
   nowhere, the driver needs nothing, and one row is committed *)
C8_Witness ==
    /\ pc = "idle"
    /\ OneRealComponent
    /\ Expanded = {2}
    /\ UnboundAt(dscp.Components[1].inf, dscp.Components[1]) # {}
    /\ Len(disk.instanced_inf) = 1
    /\ disk.instanced_inf[1].name = "C1"

----------------------------------------------------------------------------
(* Properties of the rows and edges that InstancedInfTable.parse persists *)

(* the populate of the resolution generator has returned and is committed *)
Returned == Succeeded /\ raised.kind = "none" /\ pc = "idle"

(* the built rows as parse() inserts them: the k-th is the k-th row of the run *)
Persisted == [i \in 1..Len(built.inf_entries) |-> RewriteAbsolute(built.inf_entries[i])]

(* the rows a lookup by (environment, path, platform description) matches *)
Matching(env, path, dsc) ==
    {i \in 1..Len(db.instanced_inf) :
        /\ db.instanced_inf[i].env = env
        /\ db.instanced_inf[i].path = path
        /\ db.instanced_inf[i].dsc = dsc}

RelativeOf(p) == IF IsAbsolute(p) THEN GetEdk2RelativePathFromAbsolutePath(p) ELSE p

(* the component a built row belongs to: its owner, or itself when the owner is null *)
OwnerOf(entry) == IF entry.COMPONENT = None THEN entry.PATH ELSE RelativeOf(entry.COMPONENT)

(* the rows of path p that belong to the component of the k-th row *)
OwnRows(k, p) ==
    {j \in 1..Len(Persisted) :
        Persisted[j].PATH = p /\ OwnerOf(Persisted[j]) = OwnerOf(Persisted[k])}

OwnRow(k, p) == IF OwnRows(k, p) = {} THEN 0 ELSE Min(OwnRows(k, p))

(* the edges of the k-th row when every edge starts at that row and every library
   edge ends at the library row of the same component *)
OwnEdges(k) ==
    [i \in 1..Len(Persisted[k].SOURCES_USED) |->
        <<"instanced_inf", k, "source", Persisted[k].SOURCES_USED[i]>>]
    \o [i \in 1..Len(Persisted[k].LIBRARIES_USED) |->
        <<"instanced_inf", k, "instanced_inf", OwnRow(k, Persisted[k].LIBRARIES_USED[i])>>]

RECURSIVE OwnEdgesFrom(_)

OwnEdgesFrom(k) == IF k > Len(Persisted) THEN <<>> ELSE OwnEdges(k) \o OwnEdgesFrom(k + 1)

(* C11: in the edge pass every row-id lookup by (environment, path, platform
   description) matches exactly one persisted row, so the edges written for a row
   owned by component c start at that very row and each library edge ends at the
   library row owned by the same c, also when two declared components link the
   same library instance *)
C11_LookupUnambiguous ==
    Returned =>
        /\ \A k \in 1..Len(Persisted) :
              /\ Cardinality(Matching(LatestEnvironment(db).value, Persisted[k].PATH,
                                      Persisted[k].DSC)) = 1
              /\ \A p \in Range(Persisted[k].LIBRARIES_USED) :
                    Cardinality(Matching(LatestEnvironment(db).value, p,
                                         Persisted[k].DSC)) = 1
        /\ db.junction = OwnEdgesFrom(1)

(* the library edges of the store, as pairs of row ids *)
LinkEdges ==
    {<<db.junction[i][2], db.junction[i][4]>> :
        i \in {j \in 1..Len(db.junction) :
                  db.junction[j][1] = "instanced_inf" /\ db.junction[j][3] = "instanced_inf"}}

(* the same edges named by the paths of the rows they join *)
LinkPaths == {<<db.instanced_inf[e[1]].path, db.instanced_inf[e[2]].path>> : e \in LinkEdges}

(* the nodes of a component's tree that have L among their immediate resolved
   libraries *)
Parents(L, comp) == {P \in Tree(comp) : L \in Successors(P, comp)}

(* the position of the row of node n in the rows, 0 if it has none *)
RowAt(rows, n) ==
    IF \E i \in 1..Len(rows) : rows[i].PATH = RelativeOf(AsPosix(n))
    THEN Min({i \in 1..Len(rows) : rows[i].PATH = RelativeOf(AsPosix(n))})
    ELSE 0

(* one component is expanded, so the k-th built row is the row of id k *)
Alone == Cardinality(Expanded) = 1

(* the rows hold one row of node n's path, so a lookup of it has one match *)
OneRow(rows, n) ==
    Cardinality({i \in 1..Len(rows) : rows[i].PATH = RelativeOf(AsPosix(n))}) = 1

(* library L of a component's tree has one row among the component's rows, and
   every parent of it an edge to it *)
ParentsLinked(L, parents, rows, persisted, edges, paths) ==
    parents # {} =>
        /\ Count(rows, LAMBDA row : row.PATH = AsPosix(L)) = 1
        /\ \A P \in parents :
              /\ <<RelativeOf(AsPosix(P)), AsPosix(L)>> \in paths
              /\ OneRow(persisted, P) /\ OneRow(persisted, L) =>
                    <<RowAt(persisted, P), RowAt(persisted, L)>> \in edges

(* the same of every library of the tree *)
TreeLinked(tree, comp, rows, persisted, edges, paths) ==
    \A L \in tree :
        ParentsLinked(L, {P \in tree : L \in Successors(P, comp)}, rows, persisted,
                      edges, paths)

(* C12 as amended: when a library L is an immediate resolved dependency of two or
   more nodes of one component's tree, the run persists one row for L owned by the
   component and a junction edge to L from every one of these nodes: the row of
   each parent is joined to a row of L's path, and to L's very row when no other
   component of the run has a row of the parent's or of L's path *)
C12_EveryParentLinked ==
    Returned =>
        \A e \in Range(built.expansions) :
            TreeLinked(Tree(dscp.Components[e.k]), dscp.Components[e.k], e.rows,
                       Persisted, LinkEdges, LinkPaths)

(* C12 as stated: such a library has one row and only one junction edge into it,
   from the parent that visited it first; no edge from a second parent is written *)
C12_OnlyFirstParentLinked ==
    Returned /\ Alone =>
        \A e \in Range(built.expansions) :
            \A L \in Tree(dscp.Components[e.k]) :
                Cardinality(Parents(L, dscp.Components[e.k])) >= 2 =>
                    /\ Count(e.rows, LAMBDA row : row.PATH = AsPosix(L)) = 1
                    /\ Cardinality({edge \in LinkEdges :
                                       edge[2] = RowAt(Persisted, L)}) = 1

(* C12 witness: the driver needs ClsA and ClsB, the library for ClsA needs ClsB too;
   the library for ClsB has its one row, and the committed edges reach it from both *)
C12_Witness ==
    /\ pc = "idle"
    /\ Returned
    /\ Alone
    /\ Len(db.instanced_inf) = 3
    /\ db.instanced_inf[1].path = Rel("L2.inf")
    /\ db.instanced_inf[2].path = Rel("L1.inf")
    /\ db.instanced_inf[3].component = None
    /\ {<<2, 1>>, <<3, 1>>, <<3, 2>>} = LinkEdges
    /\ disk.junction = db.junction

(* the positions of the rows of path p in the rows of one component *)
RowsOf(rows, p) == {j \in 1..Len(rows) : rows[j].PATH = p}

(* node n is p itself or is pulled in, directly or through other libraries, by p *)
Reaches(p, n, comp) == n \in Closure({p}, comp)

(* no library of the component's tree pulls itself in *)
Acyclic(comp) ==
    \A n \in Tree(comp) : \A m \in Successors(n, comp) : ~Reaches(m, n, comp)

(* C13 as stated: in the rows of one component, when a node's row is appended a row
   already exists earlier in the list for every path of the node's immediate
   resolved-library list, on every library graph *)
C13_ChildrenFirst ==
    Succeeded =>
        \A e \in Range(built.expansions) :
            \A i \in 1..Len(e.rows) :
                \A p \in Range(e.rows[i].LIBRARIES_USED) :
                    \E j \in RowsOf(e.rows, p) : j < i

(* C13 as amended: every path of a node's immediate resolved-library list has one
   row in the component's list; that row is earlier than the node's own row unless
   the library is the node itself or pulls the node in (a dependency cycle), and so
   on an acyclic library graph rows are appended children first *)
C13_ChildrenFirstUnlessCycle ==
    Succeeded =>
        \A e \in Range(built.expansions) :
            /\ \A i \in 1..Len(e.rows) :
                  \A p \in Range(e.rows[i].LIBRARIES_USED) :
                      /\ Cardinality(RowsOf(e.rows, p)) = 1
                      /\ \A j \in RowsOf(e.rows, p) :
                            j >= i => Reaches(p, e.rows[i].PATH, dscp.Components[e.k])
            /\ Acyclic(dscp.Components[e.k]) =>
                  \A i \in 1..Len(e.rows) :
                      \A p \in Range(e.rows[i].LIBRARIES_USED) :
                          \E j \in RowsOf(e.rows, p) : j < i

(* C13 witness: the library for ClsA needs ClsB and the library for ClsB needs ClsA;
   the row of the second is appended first and lists the first *)
C13_Witness ==
    /\ pc = "idle"
    /\ Succeeded
    /\ Len(built.expansions) = 1
    /\ Len(built.expansions[1].rows) = 3
    /\ built.expansions[1].rows[1].PATH = Rel("L2.inf")
    /\ built.expansions[1].rows[1].LIBRARIES_USED = <<Rel("L1.inf")>>
    /\ built.expansions[1].rows[2].PATH = Rel("L1.inf")
    /\ built.expansions[1].rows[2].LIBRARIES_USED = <<Rel("L2.inf")>>
    /\ Len(disk.instanced_inf) = 3

NoDuplicates(s) == \A i, j \in 1..Len(s) : s[i] = s[j] => i = j

(* what C14 says of the finished expansion e of a component with the tree `tree`:
   every call of it was for a module not expanded before, the modules expanded are
   those of the tree, and every call appended its one row *)
ExpandedOnce(e, tree) ==
    /\ NoDuplicates(e.visited)
    /\ Range(e.visited) = tree
    /\ Len(e.visited) <= Cardinality(DOMAIN infs)
    /\ Len(e.rows) = Len(e.visited)
    /\ {row.PATH : row \in Range(e.rows)} = {AsPosix(n) : n \in tree}

(* the expanded components up to the k-th need no class that is bound nowhere *)
ResolvesUpTo(k) == \A i \in Expanded : i <= k => Unbound(dscp.Components[i]) = {}

(* C14: for every scoped library map and override map in which all needed classes
   resolve, also with libraries that need each other or themselves, the recursive
   expansion of each component terminates and expands each module path at most once
   for the component: a populate comes back with a finished expansion of every such
   component, and the list of the modules it expanded has no module twice *)
C14_ExpansionTerminates ==
    Populated =>
        \A k \in Expanded :
            ResolvesUpTo(k) =>
                /\ \E e \in Range(built.expansions) : e.k = k
                /\ \A e \in Range(built.expansions) :
                      e.k = k => ExpandedOnce(e, Tree(dscp.Components[k]))
                /\ (\A i \in Expanded : ResolvesUpTo(i)) => Succeeded

(* C14 witness: the library for ClsA needs ClsA, which is itself, and ClsB, whose
   library needs ClsA again; the three rows are committed *)
C14_Witness ==
    /\ pc = "idle"
    /\ Succeeded
    /\ Len(dscp.Components) = 1
    /\ infs["L1.inf"].libraries = <<"ClsA", "ClsB">>
    /\ infs["L2.inf"].libraries = <<"ClsA">>
    /\ Tree(dscp.Components[1]) = {dscp.Components[1].inf, Rel("L1.inf"), Rel("L2.inf")}
    /\ Len(disk.instanced_inf) = 3

(* the NULL libraries of a block other than node n, in the order of the block *)
Others(nulls, n) == SelectSeq(nulls, LAMBDA null_lib : null_lib # n)

(* the libraries the classes that node n needs are bound to for the component *)
ClassBound(n, comp) ==
    {FirstCandidate(Lower(InfP(n).libraries[i]), ComponentScope(comp),
                    dscp.ScopedLibraryDict, comp.overrides)[1] :
        i \in 1..Len(InfP(n).libraries)}

(* what C15 says of the row of one node of the tree of a component with NULL
   libraries: after the libraries of its needed classes the row lists every NULL
   library but the node itself *)
NullInjected(row, comp) ==
    LET needs == Len(infs[PathName(row.PATH)].libraries)
        nulls == comp.overrides["NULL"]
    IN  /\ SubSeq(row.LIBRARIES_USED, needs + 1, Len(row.LIBRARIES_USED))
              = [i \in 1..Len(Others(nulls, row.PATH)) |->
                    AsPosix(Others(nulls, row.PATH)[i])]
        /\ \A i \in 1..Len(nulls) :
              nulls[i] # row.PATH => InList(AsPosix(nulls[i]), row.LIBRARIES_USED)

(* the edges of C15 for node n of the tree of a component with NULL libraries *)
NullLinked(n, comp, persisted, edges, paths) ==
    /\ \A N \in Range(comp.overrides["NULL"]) :
          N # n =>
              /\ <<RelativeOf(AsPosix(n)), AsPosix(N)>> \in paths
              /\ OneRow(persisted, n) /\ OneRow(persisted, N) =>
                    <<RowAt(persisted, n), RowAt(persisted, N)>> \in edges
    /\ OneRow(persisted, n) /\ <<RowAt(persisted, n), RowAt(persisted, n)>> \in edges =>
          n \in ClassBound(n, comp)

(* the same of every row of one component *)
AllNullLinked(rows, comp, persisted, edges, paths) ==
    \A row \in Range(rows) : NullLinked(row.PATH, comp, persisted, edges, paths)

(* C15: for a component whose override block declares NULL libraries N1..Nk, every
   node of the component's tree (the component, every resolved library, every Ni)
   has each Nj other than itself in its immediate resolved-library list and gets a
   junction edge to a row of Nj (to Nj's very row when no other component of the
   run has a row of either path); no node gets an edge to itself through the NULL
   libraries; and each Ni has exactly one row, owned by the component *)
C15_NullLibrariesLinked ==
    Succeeded =>
        \A e \in Range(built.expansions) :
            dscp.Components[e.k].overrides["NULL"] # <<>> =>
                /\ \A row \in Range(e.rows) : NullInjected(row, dscp.Components[e.k])
                /\ \A N \in Range(dscp.Components[e.k].overrides["NULL"]) :
                      /\ Count(e.rows,
                               LAMBDA row : /\ row.PATH = AsPosix(N)
                                            /\ row.COMPONENT = AsPosix(dscp.Components[e.k].inf)) = 1
                      /\ Count(e.rows, LAMBDA row : row.PATH = AsPosix(N)) = 1
                      /\ Returned =>
                            Count(db.instanced_inf,
                                  LAMBDA r : /\ r.path = AsPosix(N)
                                             /\ r.component = AsPosix(dscp.Components[e.k].inf)) = 1
                /\ Returned =>
                      AllNullLinked(e.rows, dscp.Components[e.k], Persisted, LinkEdges,
                                    LinkPaths)

(* C15 witness: the driver's block declares two NULL libraries; each of the two has
   its row and an edge to the other, the driver an edge to both, and no row an edge
   to itself *)
C15_Witness ==
    /\ pc = "idle"
    /\ Returned
    /\ Len(dscp.Components) = 1
    /\ dscp.Components[1].overrides["NULL"] = <<Rel("L2.inf"), Rel("L3.inf")>>
    /\ Len(disk.instanced_inf) = 3
    /\ {<<RowAt(Persisted, Rel("L2.inf")), RowAt(Persisted, Rel("L3.inf"))>>,
        <<RowAt(Persisted, Rel("L3.inf")), RowAt(Persisted, Rel("L2.inf"))>>,
        <<3, RowAt(Persisted, Rel("L2.inf"))>>,
        <<3, RowAt(Persisted, Rel("L3.inf"))>>} = LinkEdges

(* C16: after a successful InstancedInfTable.parse every persisted library row
   (non-null owning component) has an owning component equal to the persisted path
   of a null-owner row of the same run, environment and platform description, and
   every path of a row's resolved-library list is the persisted path of some row of
   the run, whether the component or library was declared by a workspace-relative
   or by an absolute path *)
C16_OwnersArePersistedPaths ==
    Returned =>
        /\ \A i \in 1..Len(db.instanced_inf) :
              db.instanced_inf[i].component # None =>
                  \E j \in 1..Len(db.instanced_inf) :
                      /\ db.instanced_inf[j].component = None
                      /\ db.instanced_inf[j].path = db.instanced_inf[i].component
                      /\ db.instanced_inf[j].env = db.instanced_inf[i].env
                      /\ db.instanced_inf[j].dsc = db.instanced_inf[i].dsc
        /\ \A k \in 1..Len(Persisted) :
              \A p \in Range(Persisted[k].LIBRARIES_USED) :
                  Matching(LatestEnvironment(db).value, p, Persisted[k].DSC) # {}

====
